---- MODULE Spec2Model ----
(***************************************************************************)
(* Model of the Mixer contract of src/src/lib.rs (a NEAR smart contract).  *)
(*                                                                         *)
(* Representation choices, forced by 32-bit model integers:                *)
(*  - an amount is counted in units of 10^20 yoctoNEAR, so that 1 NEAR is  *)
(*    ONE_NEAR = 10^4 units.  Every denomination times a u16 fee rate is   *)
(*    divisible by 10^4 * 10^20, hence the integer division of line 103    *)
(*    gives the same quotient in units as in yoctoNEAR;                    *)
(*  - a block timestamp (u64 nanoseconds) is the pair [sec, ns] standing   *)
(*    for sec * 10^9 + ns, with 0 <= ns < 10^9.                            *)
(*                                                                         *)
(* A call whose assert!/expect panics is a failed function call: the host  *)
(* discards every storage write and every promise the call made.           *)
(***************************************************************************)
EXTENDS Integers, Sequences, FiniteSets, TLC

VARIABLES
    initialized,        \* env::state_exists()
    deposits,           \* Mixer.deposits : commitment -> Deposit
    nullifiers,         \* Mixer.nullifiers
    owner,              \* Mixer.owner
    fee_basis_points,   \* Mixer.fee_basis_points
    deposit_counts,     \* Mixer.deposit_counts : denomination -> u64
    now,                \* env::block_timestamp()
    call,               \* the call (or clock step) that led to this state
    result,             \* its outcome: OK or the panic message
    transfers,          \* the Promise transfers it issued, in order
    taken,              \* the Deposit a successful withdraw read (line 89)
    payouts,            \* history: the successful withdrawals so far
    value_in,           \* history: value attached to successful deposits
    value_out,          \* history: value of all transfers issued
    advances            \* number of clock steps taken

vars == <<initialized, deposits, nullifiers, owner, fee_basis_points,
          deposit_counts, now, call, result, transfers, taken, payouts,
          value_in, value_out, advances>>

contract == <<initialized, deposits, nullifiers, owner, fee_basis_points,
              deposit_counts>>

----------------------------------------------------------------------------
(* Bounds of the exploration *)

MaxAdvances == 1
MaxDeposits == 2

----------------------------------------------------------------------------
(* Program constants *)

ONE_NEAR == 10000
DENOMINATIONS == <<ONE_NEAR, 10 * ONE_NEAR, 100 * ONE_NEAR>>
MIN_DELAY == 86400
NANOS_PER_SEC == 1000000000
MAX_FEE_BASIS_POINTS == 500
BASIS_POINTS == 10000

(* Outcomes: the panic messages of the contract *)
OK == "ok"
ErrNotInitialized == "The contract is not initialized"
ErrAlreadyInitialized == "Already initialized"
ErrFeeTooHigh == "Fee cannot exceed 5%"
ErrInvalidDenomination == "Deposit must be one of the accepted denominations"
ErrDuplicateCommitment == "Commitment already exists"
ErrTokenAlreadySpent == "Nullifier already used"
ErrUnknownCommitment == "Commitment not found"
ErrInvalidAuthorization == "Invalid proof"
ErrWithdrawalTooEarly == "Withdrawal too early, time delay not satisfied"
ErrUnauthorized == "Only owner can update fee"

----------------------------------------------------------------------------
(* Inputs *)

Accounts == {"alice", "bob"}
NewOwners == {"alice"}
NoAccount == "none"
Commitments == {"commitment123", "commitment7"}
Nullifiers == {"nullifier123", "nullifier54"}
AttachedValues == {ONE_NEAR, 5 * ONE_NEAR, 10 * ONE_NEAR, 100 * ONE_NEAR}
FeeInputs == {0, 500, 501}

RECURSIVE Pad(_, _)
Pad(s, n) == IF Len(s) >= n THEN s ELSE Pad(Append(s, "0"), n)

(* proofs, as sequences of characters *)
Proofs == { Pad(<<"c">>, 32), <<"c", "t", "e", "s", "t">> }

NoDeposit == [denomination |-> 0, timestamp |-> [sec |-> 0 - 1, ns |-> 0]]

----------------------------------------------------------------------------
(* Timestamps *)

Ts(s, n) == [sec |-> s, ns |-> n]

TsAdd(a, d) ==
    LET n == a.ns + d.ns
    IN  Ts(a.sec + d.sec + (n \div NANOS_PER_SEC), n % NANOS_PER_SEC)

(* a - b on u64 nanoseconds, for a >= b *)
TsSub(a, b) ==
    IF a.ns >= b.ns THEN Ts(a.sec - b.sec, a.ns - b.ns)
    ELSE Ts(a.sec - b.sec - 1, a.ns + NANOS_PER_SEC - b.ns)

TsGeq(a, b) == a.sec > b.sec \/ (a.sec = b.sec /\ a.ns >= b.ns)

(* the steps the block clock may take between two calls: one nanosecond    *)
(* less than the delay, the delay, one nanosecond more                     *)
ClockSteps == { Ts(MIN_DELAY - 1, NANOS_PER_SEC - 1), Ts(MIN_DELAY, 0),
                Ts(MIN_DELAY, 1) }

----------------------------------------------------------------------------
(* The host discards the writes and promises of a call that panicked *)

panic_keeps_writes(err, written, before) == written

panic_discards(err, written, before) == IF err = OK THEN written ELSE before

----------------------------------------------------------------------------
(* Mixer::new *)

fee_unchecked(fee) == fee <= 65535

fee_allowed_strict(fee) == fee < MAX_FEE_BASIS_POINTS

fee_allowed(fee) == fee <= MAX_FEE_BASIS_POINTS

ZeroCounts == [d \in {DENOMINATIONS[i] : i \in 1..Len(DENOMINATIONS)} |-> 0]

new(new_owner, fee) ==
    LET err == IF initialized THEN ErrAlreadyInitialized
               ELSE IF ~fee_allowed(fee) THEN ErrFeeTooHigh
               ELSE OK
    IN  /\ call' = [op |-> "new", owner |-> new_owner,
                    fee_basis_points |-> fee]
        /\ result' = err
        /\ transfers' = <<>>
        /\ taken' = NoDeposit
        /\ initialized' = panic_discards(err, TRUE, initialized)
        /\ deposits' = panic_discards(err, [c \in Commitments |-> NoDeposit], deposits)
        /\ nullifiers' = panic_discards(err, {}, nullifiers)
        /\ owner' = panic_discards(err, new_owner, owner)
        /\ fee_basis_points' = panic_discards(err, fee, fee_basis_points)
        /\ deposit_counts' = panic_discards(err, ZeroCounts, deposit_counts)
        /\ UNCHANGED <<now, payouts, value_in, value_out, advances>>

----------------------------------------------------------------------------
(* Mixer::deposit *)

(* lines 58-68 with `>=` in place of `==` *)
RECURSIVE denom_loop_geq(_, _, _)
denom_loop_geq(i, deposit_amount, counts) ==
    IF i > Len(DENOMINATIONS) THEN [valid |-> FALSE, counts |-> counts]
    ELSE IF deposit_amount >= DENOMINATIONS[i]
         THEN [valid |-> TRUE,
               counts |-> [counts EXCEPT ![DENOMINATIONS[i]] = @ + 1]]
         ELSE denom_loop_geq(i + 1, deposit_amount, counts)

(* lines 58-68 counting every deposit under the first denomination *)
RECURSIVE denom_loop_first(_, _, _)
denom_loop_first(i, deposit_amount, counts) ==
    IF i > Len(DENOMINATIONS) THEN [valid |-> FALSE, counts |-> counts]
    ELSE IF deposit_amount = DENOMINATIONS[i]
         THEN [valid |-> TRUE,
               counts |-> [counts EXCEPT ![DENOMINATIONS[1]] = @ + 1]]
         ELSE denom_loop_first(i + 1, deposit_amount, counts)

(* the loop of lines 58-68, from index i on: the first denomination equal  *)
(* to the attached amount is counted and ends the loop                     *)
RECURSIVE denom_loop(_, _, _)
denom_loop(i, deposit_amount, counts) ==
    IF i > Len(DENOMINATIONS) THEN [valid |-> FALSE, counts |-> counts]
    ELSE IF deposit_amount = DENOMINATIONS[i]
         THEN [valid |-> TRUE,
               counts |-> [counts EXCEPT ![DENOMINATIONS[i]] = @ + 1]]
         ELSE denom_loop(i + 1, deposit_amount, counts)

contains_key_never(map, commitment) == FALSE

contains_key(map, commitment) == map[commitment] # NoDeposit

RECURSIVE SumCounts(_, _)
SumCounts(counts, i) ==
    IF i = 0 THEN 0 ELSE counts[DENOMINATIONS[i]] + SumCounts(counts, i - 1)

deposit(commitment, deposit_amount) ==
    LET loop == denom_loop(1, deposit_amount, deposit_counts)
        err == IF ~initialized THEN ErrNotInitialized
               ELSE IF ~loop.valid THEN ErrInvalidDenomination
               ELSE IF contains_key(deposits, commitment)
                    THEN ErrDuplicateCommitment
               ELSE OK
        counts1 == IF initialized THEN loop.counts ELSE deposit_counts
        deposits1 == IF err = OK
                     THEN [deposits EXCEPT ![commitment] =
                              [denomination |-> deposit_amount,
                               timestamp |-> now]]
                     ELSE deposits
    IN  /\ err = OK =>
              SumCounts(deposit_counts, Len(DENOMINATIONS)) < MaxDeposits
        /\ call' = [op |-> "deposit",
                    commitment |-> commitment, attached |-> deposit_amount]
        /\ result' = err
        /\ transfers' = <<>>
        /\ taken' = NoDeposit
        /\ deposit_counts' = panic_discards(err, counts1, deposit_counts)
        /\ deposits' = panic_discards(err, deposits1, deposits)
        /\ value_in' = panic_discards(err, value_in + deposit_amount,
                                      value_in)
        /\ UNCHANGED <<initialized, nullifiers, owner, fee_basis_points, now,
                       payouts, value_out, advances>>

----------------------------------------------------------------------------
(* Mixer::verify_proof *)

(* first hex character of SHA-256(nullifier || commitment) *)
Sha256FirstHex(nullifier, commitment) ==
    CASE nullifier = "nullifier123" /\ commitment = "commitment123" -> "c"
      [] nullifier = "nullifier123" /\ commitment = "commitment7"   -> "c"
      [] nullifier = "nullifier54"  /\ commitment = "commitment123" -> "c"
      [] nullifier = "nullifier54"  /\ commitment = "commitment7"   -> "5"

(* lines 127-129 left out: any length passes *)
verify_proof_any_length(nullifier, commitment, proof) ==
    Len(proof) > 0 /\ proof[1] = Sha256FirstHex(nullifier, commitment)

verify_proof(nullifier, commitment, proof) ==
    IF Len(proof) < 32 THEN FALSE
    ELSE proof[1] = Sha256FirstHex(nullifier, commitment)

----------------------------------------------------------------------------
(* Mixer::withdraw *)

delay_satisfied_strict(current_time, timestamp) ==
    /\ TsGeq(TsSub(current_time, timestamp), Ts(MIN_DELAY, 0))
    /\ TsSub(current_time, timestamp) # Ts(MIN_DELAY, 0)

(* line 96: current_time - deposit.timestamp >= MIN_DELAY * 1_000_000_000 *)
delay_satisfied(current_time, timestamp) ==
    TsGeq(TsSub(current_time, timestamp), Ts(MIN_DELAY, 0))

nullifiers_insert_skipped(set, nullifier) == set

nullifiers_insert_replace(set, nullifier) == {nullifier}

nullifiers_insert(set, nullifier) == set \cup {nullifier}

fee_of_per_mille(denomination, rate) == (denomination * rate) \div 1000

(* line 103 *)
fee_of(denomination, rate) == (denomination * rate) \div BASIS_POINTS

deposits_remove_skipped(map, commitment) == map

(* line 115 *)
deposits_remove(map, commitment) == [map EXCEPT ![commitment] = NoDeposit]

Transfer(account, amount) == [to |-> account, amount |-> amount]

(* the value a sequence of Promise transfers moves out of the contract *)
RECURSIVE SumAmounts(_)
SumAmounts(promises) ==
    IF promises = <<>> THEN 0
    ELSE Head(promises).amount + SumAmounts(Tail(promises))

withdraw(recipient, nullifier, commitment, proof) ==
    LET deposit_ == deposits[commitment]
        err == IF ~initialized THEN ErrNotInitialized
               ELSE IF nullifier \in nullifiers THEN ErrTokenAlreadySpent
               ELSE IF deposit_ = NoDeposit THEN ErrUnknownCommitment
               ELSE IF ~verify_proof(nullifier, commitment, proof)
                    THEN ErrInvalidAuthorization
               ELSE IF ~delay_satisfied(now, deposit_.timestamp)
                    THEN ErrWithdrawalTooEarly
               ELSE OK
        fee == fee_of(deposit_.denomination, fee_basis_points)
        withdrawal_amount == deposit_.denomination - fee
        promises == (IF fee > 0 THEN <<Transfer(owner, fee)>> ELSE <<>>)
                    \o <<Transfer(recipient, withdrawal_amount)>>
    IN  /\ call' = [op |-> "withdraw",
                    recipient |-> recipient, nullifier |-> nullifier,
                    commitment |-> commitment, proof |-> proof]
        /\ result' = err
        /\ transfers' = panic_discards(err, promises, <<>>)
        /\ taken' = panic_discards(err, deposit_, NoDeposit)
        /\ nullifiers' = panic_discards(err,
                             nullifiers_insert(nullifiers, nullifier),
                             nullifiers)
        /\ deposits' = panic_discards(err,
                           deposits_remove(deposits, commitment),
                           deposits)
        /\ payouts' = IF err = OK
                      THEN payouts \cup {[nullifier |-> nullifier,
                                          commitment |-> commitment]}
                      ELSE payouts
        /\ value_out' = value_out + SumAmounts(transfers')
        /\ UNCHANGED <<initialized, owner, fee_basis_points, deposit_counts,
                       now, value_in, advances>>

----------------------------------------------------------------------------
(* Mixer::update_fee *)

is_owner_anyone(caller, account) == TRUE

is_owner(caller, account) == caller = account

update_fee(caller, new_fee_basis_points) ==
    LET err == IF ~initialized THEN ErrNotInitialized
               ELSE IF ~is_owner(caller, owner) THEN ErrUnauthorized
               ELSE IF ~fee_allowed(new_fee_basis_points) THEN ErrFeeTooHigh
               ELSE OK
    IN  /\ call' = [op |-> "update_fee", caller |-> caller,
                    new_fee_basis_points |-> new_fee_basis_points]
        /\ result' = err
        /\ transfers' = <<>>
        /\ taken' = NoDeposit
        /\ fee_basis_points' =
               panic_discards(err, new_fee_basis_points, fee_basis_points)
        /\ UNCHANGED <<initialized, deposits, nullifiers, owner,
                       deposit_counts, now, payouts, value_in, value_out,
                       advances>>

----------------------------------------------------------------------------
(* Mixer::get_pool_stats *)

RECURSIVE stats_loop(_, _, _)
stats_loop(i, counts, acc) ==
    IF i > Len(DENOMINATIONS) THEN acc
    ELSE LET denom == DENOMINATIONS[i]
             count == counts[denom]
         IN  stats_loop(i + 1, counts,
                 [total_deposits |-> acc.total_deposits + count,
                  total_amount |-> acc.total_amount + denom * count,
                  by_denomination |->
                      Append(acc.by_denomination, <<denom, count>>)])

get_pool_stats(counts) ==
    stats_loop(1, counts, [total_deposits |-> 0, total_amount |-> 0,
                           by_denomination |-> <<>>])

----------------------------------------------------------------------------
(* The block clock moves between calls *)

advance(step) ==
    /\ advances < MaxAdvances
    /\ advances' = advances + 1
    /\ now' = TsAdd(now, step)
    /\ call' = [op |-> "advance"]
    /\ result' = OK
    /\ transfers' = <<>>
    /\ taken' = NoDeposit
    /\ UNCHANGED <<initialized, deposits, nullifiers, owner,
                   fee_basis_points, deposit_counts, payouts, value_in,
                   value_out>>

----------------------------------------------------------------------------

Init ==
    /\ initialized = FALSE
    /\ deposits = [c \in Commitments |-> NoDeposit]
    /\ nullifiers = {}
    /\ owner = NoAccount
    /\ fee_basis_points = 0
    /\ deposit_counts = ZeroCounts
    /\ now = Ts(0, 0)
    /\ call = [op |-> "deploy"]
    /\ result = OK
    /\ transfers = <<>>
    /\ taken = NoDeposit
    /\ payouts = {}
    /\ value_in = 0
    /\ value_out = 0
    /\ advances = 0

Next ==
    \/ \E o \in NewOwners, f \in FeeInputs : new(o, f)
    \/ \E c \in Commitments, v \in AttachedValues : deposit(c, v)
    \/ \E r \in Accounts, n \in Nullifiers, c \in Commitments, p \in Proofs :
          withdraw(r, n, c, p)
    \/ \E a \in Accounts, f \in FeeInputs : update_fee(a, f)
    \/ \E s \in ClockSteps : advance(s)

Spec == Init /\ [][Next]_vars

----------------------------------------------------------------------------
(* Vocabulary of the properties *)

Accepted == {DENOMINATIONS[i] : i \in 1..Len(DENOMINATIONS)}

UsedNullifiers == {p.nullifier : p \in payouts}

MinDelayNanos == Ts(MIN_DELAY, 0)

(* the count get_pool_stats reports for denomination d *)
StatCount(counts, d) ==
    LET by == get_pool_stats(counts).by_denomination
        i == CHOOSE j \in 1..Len(by) : by[j][1] = d
    IN  by[i][2]

----------------------------------------------------------------------------
(* C1: once a withdraw has succeeded with a nullifier, every later withdraw *)
(* that presents this nullifier fails with "Nullifier already used" and     *)
(* issues no transfer, whatever its recipient, commitment and proof.        *)
C1_SpentNullifierRejected ==
    [][(call'.op = "withdraw" /\ call'.nullifier \in UsedNullifiers)
          => (result' = ErrTokenAlreadySpent /\ transfers' = <<>>)]_vars

(* a paid-out nullifier is rejected on another commitment that is live,     *)
(* matured and presented with an accepted proof                             *)
C1_Witness ==
    /\ call.op = "withdraw"
    /\ result = ErrTokenAlreadySpent
    /\ \E p \in payouts :
          p.nullifier = call.nullifier /\ p.commitment # call.commitment
    /\ deposits[call.commitment] # NoDeposit
    /\ verify_proof(call.nullifier, call.commitment, call.proof)
    /\ delay_satisfied(now, deposits[call.commitment].timestamp)

(* C2: an otherwise valid withdraw (unused nullifier, live commitment,      *)
(* accepted proof) of a record created at t fails with "Withdrawal too      *)
(* early" when now < t + MIN_DELAY and succeeds when now >= t + MIN_DELAY.  *)
C2_TimeLockInclusive ==
    [][(/\ call'.op = "withdraw"
        /\ initialized
        /\ call'.nullifier \notin nullifiers
        /\ deposits[call'.commitment] # NoDeposit
        /\ verify_proof(call'.nullifier, call'.commitment, call'.proof))
          => LET t == deposits[call'.commitment].timestamp
             IN  IF TsGeq(now, TsAdd(t, MinDelayNanos))
                 THEN result' = OK
                 ELSE result' = ErrWithdrawalTooEarly]_vars

(* a withdraw succeeded exactly MIN_DELAY after the deposit *)
C2_Witness ==
    /\ call.op = "withdraw"
    /\ result = OK
    /\ now = TsAdd(taken.timestamp, MinDelayNanos)

(* the other side of the boundary: a withdraw one nanosecond short *)
C2_TooEarlyByOneNano ==
    /\ call.op = "withdraw"
    /\ result = ErrWithdrawalTooEarly
    /\ TsAdd(now, Ts(0, 1)) =
          TsAdd(deposits[call.commitment].timestamp, MinDelayNanos)

(* and past it: a withdraw succeeded later than MIN_DELAY after the deposit *)
C2_LaterThanBoundary ==
    /\ call.op = "withdraw"
    /\ result = OK
    /\ now = TsAdd(taken.timestamp, Ts(MIN_DELAY, 1))

(* C3: a commitment that was withdrawn never has a live record again.       *)
C3_WithdrawnIsTerminal ==
    \A p \in payouts : deposits[p.commitment] = NoDeposit

(* C4: deposit(c) with an accepted denomination d, for c without a live     *)
(* record, succeeds, stores (d, now) for c, and raises the reported count   *)
(* of d by one, the other counts by nothing, total_deposits by one and      *)
(* total_amount by d.                                                       *)
C4_DepositCounted ==
    [][(/\ call'.op = "deposit"
        /\ initialized
        /\ call'.attached \in Accepted
        /\ deposits[call'.commitment] = NoDeposit)
          => /\ result' = OK
             /\ deposits'[call'.commitment] =
                   [denomination |-> call'.attached, timestamp |-> now]
             /\ \A d \in Accepted :
                   StatCount(deposit_counts', d) =
                      StatCount(deposit_counts, d)
                         + (IF d = call'.attached THEN 1 ELSE 0)
             /\ get_pool_stats(deposit_counts').total_deposits =
                   get_pool_stats(deposit_counts).total_deposits + 1
             /\ get_pool_stats(deposit_counts').total_amount =
                   get_pool_stats(deposit_counts).total_amount
                      + call'.attached]_vars

(* a second deposit, of 100 NEAR, was accepted after one of another value *)
C4_Witness ==
    /\ call.op = "deposit"
    /\ result = OK
    /\ call.attached = DENOMINATIONS[3]
    /\ deposits[call.commitment].denomination = DENOMINATIONS[3]
    /\ StatCount(deposit_counts, DENOMINATIONS[3]) = 1
    /\ get_pool_stats(deposit_counts).total_deposits = 2

(* C5 as stated: a deposit for a commitment with a live record fails with   *)
(* "Commitment already exists" whatever value is attached.                  *)
C5_DuplicateWhateverValue ==
    [][(/\ call'.op = "deposit"
        /\ initialized
        /\ deposits[call'.commitment] # NoDeposit)
          => result' = ErrDuplicateCommitment]_vars

(* C5 as amended: a deposit for a commitment with a live record fails and   *)
(* leaves the records alone; the error is "Commitment already exists" when  *)
(* the attached value is an accepted denomination (the same as the first    *)
(* deposit's or another) and the denomination error when it is not.         *)
C5_DuplicateRejected ==
    [][(/\ call'.op = "deposit"
        /\ initialized
        /\ deposits[call'.commitment] # NoDeposit)
          => /\ result' = IF call'.attached \in Accepted
                          THEN ErrDuplicateCommitment
                          ELSE ErrInvalidDenomination
             /\ deposits' = deposits]_vars

(* a second deposit with another accepted denomination was rejected *)
C5_Witness ==
    /\ call.op = "deposit"
    /\ result = ErrDuplicateCommitment
    /\ deposits[call.commitment] # NoDeposit
    /\ deposits[call.commitment].denomination # call.attached

(* C6: a deposit whose attached value is none of the three denominations    *)
(* fails with the denomination error, creates no record and leaves every    *)
(* value of get_pool_stats unchanged.                                       *)
C6_InvalidDenominationRejected ==
    [][(/\ call'.op = "deposit"
        /\ initialized
        /\ call'.attached \notin {10000, 100000, 1000000})
          => /\ result' = ErrInvalidDenomination
             /\ deposits' = deposits
             /\ get_pool_stats(deposit_counts') =
                   get_pool_stats(deposit_counts)]_vars

(* 5 NEAR was refused for a fresh commitment while the pool had deposits *)
C6_Witness ==
    /\ call.op = "deposit"
    /\ result = ErrInvalidDenomination
    /\ call.attached = 5 * ONE_NEAR
    /\ deposits[call.commitment] = NoDeposit
    /\ get_pool_stats(deposit_counts).total_deposits > 0

(* C7: a successful withdraw of a record of denomination g under the fee    *)
(* rate f stored at the time of the call transfers floor(g*f/10000) to the  *)
(* owner and the rest to the recipient; when the fee is 0 the only transfer *)
(* is g to the recipient.                                                   *)
C7_FeeSplit ==
    [][(call'.op = "withdraw" /\ result' = OK)
          => LET g == deposits[call'.commitment].denomination
                 f == fee_basis_points
                 fee == (g * f) \div 10000
                 net == g - fee
             IN  /\ fee + net = g
                 /\ f = 0 => fee = 0
                 /\ fee > 0 =>
                       transfers' = <<[to |-> owner, amount |-> fee],
                                      [to |-> call'.recipient, amount |-> net]>>
                 /\ fee = 0 =>
                       transfers' = <<[to |-> call'.recipient, amount |-> g]>>
        ]_vars

(* 100 NEAR was paid out at 5%: 5 NEAR to the owner, 95 NEAR to another     *)
(* account                                                                  *)
C7_Witness ==
    /\ call.op = "withdraw"
    /\ result = OK
    /\ taken.denomination = 100 * ONE_NEAR
    /\ fee_basis_points = 500
    /\ call.recipient # owner
    /\ transfers = <<[to |-> owner, amount |-> 5 * ONE_NEAR],
                     [to |-> call.recipient, amount |-> 95 * ONE_NEAR]>>

(* the fee-free side: the whole denomination went to the recipient *)
C7_NoFeeTransfer ==
    /\ call.op = "withdraw"
    /\ result = OK
    /\ fee_basis_points = 0
    /\ transfers = <<[to |-> call.recipient, amount |-> taken.denomination]>>

(* C8: in every state of an initialized contract the fee rate is at most    *)
(* 500 basis points.                                                        *)
C8_FeeAtMost500 == initialized => fee_basis_points <= 500

(* the owner asked for 501 while the rate was 500, and was refused *)
C8_Witness ==
    /\ initialized
    /\ fee_basis_points = 500
    /\ call.op = "update_fee"
    /\ call.caller = owner
    /\ call.new_fee_basis_points = 501
    /\ result = ErrFeeTooHigh

(* C9: update_fee(v) sets the rate to v when the caller is the owner and    *)
(* v <= 500; any other caller gets "Only owner can update fee"; the owner   *)
(* with v > 500 gets "Fee cannot exceed 5%"; a failure changes neither the  *)
(* rate nor the owner.                                                      *)
C9_UpdateFee ==
    [][(call'.op = "update_fee" /\ initialized)
          => LET v == call'.new_fee_basis_points
             IN  /\ owner' = owner
                 /\ (call'.caller = owner /\ v <= 500)
                       => (result' = OK /\ fee_basis_points' = v)
                 /\ call'.caller # owner
                       => (result' = ErrUnauthorized
                           /\ fee_basis_points' = fee_basis_points)
                 /\ (call'.caller = owner /\ v > 500)
                       => (result' = ErrFeeTooHigh
                           /\ fee_basis_points' = fee_basis_points)]_vars

(* another account asked for an allowed rate and the rate stayed *)
C9_Witness ==
    /\ call.op = "update_fee"
    /\ call.caller # owner
    /\ call.new_fee_basis_points <= 500
    /\ call.new_fee_basis_points # fee_basis_points
    /\ result = ErrUnauthorized

C11_WrongFirstCharacter ==
    /\ call.op = "withdraw"
    /\ result = ErrInvalidAuthorization
    /\ Len(call.proof) >= 32
    /\ call.proof[1] # Sha256FirstHex(call.nullifier, call.commitment)

(* C12: with a live record older than MIN_DELAY, a withdraw with an unused  *)
(* nullifier and a proof made of the first hex character of                 *)
(* SHA-256(nullifier || commitment) followed by a suffix (the unit test's   *)
(* proof is that character followed by "test") succeeds, and the nullifier  *)
(* is then in the spent set.                                                *)
C12_TestProofWithdraws ==
    [][(/\ call'.op = "withdraw"
        /\ initialized
        /\ call'.nullifier \notin nullifiers
        /\ deposits[call'.commitment] # NoDeposit
        /\ TsGeq(now, TsAdd(deposits[call'.commitment].timestamp,
                            Ts(MIN_DELAY, 1)))
        /\ Len(call'.proof) > 1
        /\ call'.proof[1] =
              Sha256FirstHex(call'.nullifier, call'.commitment))
          => (result' = OK /\ call'.nullifier \in nullifiers')]_vars

(* C13: new is a one-time initialization.  On an uninitialized contract     *)
(* with fee <= 500 it succeeds and the state has that owner, that fee rate, *)
(* no deposit record, no spent nullifier and every counter zero; with a     *)
(* larger fee it fails and the contract stays uninitialized; on an          *)
(* initialized contract it fails with "Already initialized" and owner, fee  *)
(* rate and stores keep their values.                                       *)
C13_NewOnce ==
    [][call'.op = "new"
          => IF initialized
             THEN result' = ErrAlreadyInitialized /\ UNCHANGED contract
             ELSE IF call'.fee_basis_points <= 500
             THEN /\ result' = OK
                  /\ initialized'
                  /\ owner' = call'.owner
                  /\ fee_basis_points' = call'.fee_basis_points
                  /\ \A c \in Commitments : deposits'[c] = NoDeposit
                  /\ nullifiers' = {}
                  /\ \A d \in DOMAIN deposit_counts' : deposit_counts'[d] = 0
             ELSE /\ result' = ErrFeeTooHigh
                  /\ ~initialized']_vars

(* a second new, refused while a record, a spent nullifier and a changed   *)
(* fee rate are in the state                                                *)
C13_Witness ==
    /\ call.op = "new"
    /\ result = ErrAlreadyInitialized
    /\ nullifiers # {}
    /\ \E c \in Commitments : deposits[c] # NoDeposit
    /\ fee_basis_points # call.fee_basis_points

C13_FeeRefused ==
    call.op = "new" /\ result = ErrFeeTooHigh /\ ~initialized

C13_MaximumFeeAccepted ==
    call.op = "new" /\ result = OK /\ fee_basis_points = 500

(* C14: the spent-nullifier set is insert-only.  A successful withdraw adds *)
(* exactly the nullifier it presented, which was not a member before; every *)
(* other step (deposit, update_fee, new, any failed call) leaves the set as *)
(* it was.                                                                  *)
C14_NullifiersInsertOnly ==
    [][IF call'.op = "withdraw" /\ result' = OK
       THEN /\ call'.nullifier \notin nullifiers
            /\ nullifiers' = nullifiers \cup {call'.nullifier}
       ELSE nullifiers' = nullifiers]_vars

(* the second successful withdraw: the first nullifier is still a member *)
C14_Witness ==
    /\ call.op = "withdraw"
    /\ result = OK
    /\ Cardinality(nullifiers) = 2

----------------------------------------------------------------------------
(* the commitments that have a record, and what the records hold *)
LiveCommitments(map) == {c \in Commitments : map[c] # NoDeposit}

RECURSIVE SumDenominations(_, _)
SumDenominations(map, S) ==
    IF S = {} THEN 0
    ELSE LET c == CHOOSE x \in S : TRUE
         IN  map[c].denomination + SumDenominations(map, S \ {c})

LiveValue(map) == SumDenominations(map, LiveCommitments(map))

C16_RecordFrame ==
    [][\A c \in LiveCommitments(deposits) :
          \/ deposits'[c] = deposits[c]
          \/ /\ call'.op = "withdraw"
             /\ result' = OK
             /\ call'.commitment = c
             /\ deposits'[c] = NoDeposit]_vars

(* a deposit of the same commitment with another accepted value, made      *)
(* after the clock moved, was refused and the record is as it was          *)
C16_Witness ==
    /\ call.op = "deposit"
    /\ result = ErrDuplicateCommitment
    /\ deposits[call.commitment] # NoDeposit
    /\ deposits[call.commitment].denomination # call.attached
    /\ deposits[call.commitment].timestamp # now

(* a failed withdraw naming a live record leaves it *)
C16_FailedWithdrawKeepsRecord ==
    /\ call.op = "withdraw"
    /\ result \notin {OK, ErrUnknownCommitment}
    /\ deposits[call.commitment] # NoDeposit

(* C17: calls run one at a time.  Of two withdraw requests that are each   *)
(* valid on their own and name the same live commitment, run back to back  *)
(* in either order, the first succeeds with one net transfer and at most   *)
(* one fee transfer, and the second fails, with "Nullifier already used"   *)
(* if it presents the same nullifier and with "Commitment not found" if it *)
(* presents another unused one, issuing no transfer and changing no state. *)
C17_OneOfTwoWithdraws ==
    [][(/\ call.op = "withdraw"
        /\ result = OK
        /\ call'.op = "withdraw"
        /\ call'.commitment = call.commitment
        /\ \/ call'.nullifier = call.nullifier
           \/ call'.nullifier \notin nullifiers
        /\ verify_proof(call'.nullifier, call'.commitment, call'.proof)
        /\ delay_satisfied(now', taken.timestamp))
          => /\ Len(transfers) \in {1, 2}
             /\ transfers[Len(transfers)].to = call.recipient
             /\ Len(transfers) = 2 => transfers[1].to = owner
             /\ result' = IF call'.nullifier = call.nullifier
                          THEN ErrTokenAlreadySpent
                          ELSE ErrUnknownCommitment
             /\ transfers' = <<>>
             /\ UNCHANGED contract]_vars

(* the second request, with another unused nullifier and a proof that      *)
(* verifies, refused after the first one was paid                          *)
C17_Witness ==
    /\ call.op = "withdraw"
    /\ result = ErrUnknownCommitment
    /\ verify_proof(call.nullifier, call.commitment, call.proof)
    /\ call.nullifier \notin nullifiers
    /\ \E p \in payouts : /\ p.commitment = call.commitment
                          /\ p.nullifier # call.nullifier
    /\ Cardinality(payouts) = 1

(* the second request with the same nullifier *)
C17_SameNullifier ==
    /\ call.op = "withdraw"
    /\ result = ErrTokenAlreadySpent
    /\ verify_proof(call.nullifier, call.commitment, call.proof)
    /\ deposits[call.commitment] = NoDeposit
    /\ payouts = {[nullifier |-> call.nullifier,
                   commitment |-> call.commitment]}

(* C18: after every completed call, the total_deposits that get_pool_stats *)
(* returns equals the number of live deposit records plus the number of    *)
(* spent nullifiers; so the successful withdrawals never outnumber the     *)
(* successful deposits.                                                    *)
C18_TotalDeposits ==
    /\ get_pool_stats(deposit_counts).total_deposits
          = Cardinality(LiveCommitments(deposits)) + Cardinality(nullifiers)
    /\ Cardinality(nullifiers)
          <= get_pool_stats(deposit_counts).total_deposits

(* one record withdrawn, one still live *)
C18_Witness ==
    /\ call.op = "withdraw"
    /\ result = OK
    /\ Cardinality(nullifiers) = 1
    /\ Cardinality(LiveCommitments(deposits)) = 1
    /\ get_pool_stats(deposit_counts).total_deposits = 2

(* C19: value is conserved.  After every completed call, the value         *)
(* accepted by successful deposits minus the value of all transfers issued *)
(* (fee and net) equals the sum of the denominations of the live records;  *)
(* the transfers never exceed what was deposited.                          *)
C19_ValueConserved ==
    /\ value_in - value_out = LiveValue(deposits)
    /\ value_out <= value_in

(* a withdraw that paid a fee and a net amount, another record still live *)
C19_Witness ==
    /\ call.op = "withdraw"
    /\ result = OK
    /\ Len(transfers) = 2
    /\ value_out > 0
    /\ LiveValue(deposits) > 0

====
